---- MODULE Spec2Model ----
(***************************************************************************)
(* Reminder queue of telegram-bot-reminder-api.ai: the sqlite `queue`      *)
(* table behind db.Database (src/db/database.go) and the polling scheduler *)
(* and request handlers that use it (src/main.go).                         *)
(*                                                                         *)
(* Every method of Database takes the RWMutex around its single SQL        *)
(* statement, so each store call is one atomic step here.  A delivery      *)
(* goroutine started by processQueue is a small process with its own       *)
(* position (send, mark, inc, done); goroutines of several cycles may be   *)
(* in flight together.                                                     *)
(***************************************************************************)
EXTENDS Integers, Sequences, FiniteSets, TLC

\* ---------------------------------------------------------------- bounds
MaxChat == 2        \* chat ids 1..MaxChat
MaxMsg == 1         \* message texts 1..MaxMsg
MaxTime == 1        \* unix seconds 0..MaxTime
MaxRows == 2        \* rows ever inserted (caps the autoincrement counter)
MaxTasks == 2       \* delivery goroutines ever started
MaxConfTries == 2   \* largest max_num_tries of config.json that is tried
MaxCycles == 2      \* poll cycles followed at the level of the lock
MaxLiveChat == 1    \* chats that use the bot while the scheduler is left to run on

Chats == 1..MaxChat
Messages == 1..MaxMsg
Times == 0..MaxTime
QueueIDs == 1..MaxRows
LiveChats == 1..MaxLiveChat

\* ------------------------------------------------------- program constants
defaultMaxNumTries == 10
NULL == -1          \* SQL NULL of the integer column delivered_on

VARIABLES
    queue,        \* rows of table queue
    seq,          \* sqlite_sequence of queue: the largest id ever assigned
    now,          \* wall clock, unix seconds (time.Now / strftime('%s','now'))
    maxNumTries,  \* _maxNumTries, set once by init() from config.json
    tasks,        \* delivery goroutines ever started by processQueue, in start order
    ret,          \* the last operation, its arguments and what it returned
    deleted,      \* history: (chat_id, id) of the rows a delete statement removed
    numMarked,    \* history: id -> MarkQueueItemAsDelivered calls that returned true
    numIncreased, \* history: id -> IncreaseNumTries calls that matched the row
    mu,           \* Database.RWMutex: the writer holding it (0: none) and the readers
    thr           \* per thread: the Database method it is in and how far it got

dataVars == <<queue, seq, now, maxNumTries, tasks, ret, deleted, numMarked, numIncreased>>
lockVars == <<mu, thr>>
vars == <<queue, seq, now, maxNumTries, tasks, ret, deleted, numMarked, numIncreased,
          mu, thr>>

\* -------------------------------------------------------------- the table
\* A row as `insert into queue(chat_id, message, fire_on)` creates it: the
\* other columns take the defaults of the create table statement.
NewRow(id, chatID, message, fireOn, t) ==
    [id |-> id, chat_id |-> chatID, message |-> message, enqueued_on |-> t,
     fire_on |-> fireOn, delivered_on |-> NULL, num_tries |-> 0]

\* The constraints of table queue that `insert or ignore` can trip on: the
\* primary key is the only uniqueness constraint the schema declares.
Conflicts(q, row) == {r \in q : r.id = row.id}

\* Mutation of NextID: integer primary key without autoincrement, which
\* hands out one more than the largest id now in the table.
NextIDNoAutoincrement(q, s) ==
    IF q = {} THEN 1 ELSE 1 + CHOOSE m \in {r.id : r \in q} : \A r \in q : r.id <= m

\* integer primary key autoincrement: one more than the largest id ever used
NextID(q, s) == s + 1

\* rows.Scan into a QueueItem: num_tries is not selected, delivered_on is
\* read through ifnull(delivered_on, 0).
ScanQueueItem(r) ==
    [ID |-> r.id, ChatID |-> r.chat_id, Message |-> r.message,
     EnqueuedOn |-> r.enqueued_on, FireOn |-> r.fire_on,
     DeliveredOn |-> IF r.delivered_on = NULL THEN 0 ELSE r.delivered_on,
     NumTries |-> 0]

\* `order by enqueued_on desc`: every arrangement of the rows that is
\* non-increasing in enqueued_on (sqlite leaves the order of ties open).
OrderByEnqueuedOnDesc(rows) ==
    {s \in [1..Cardinality(rows) -> rows] :
        /\ \A i, j \in DOMAIN s : i # j => s[i] # s[j]
        /\ \A i, j \in DOMAIN s : i < j => s[i].enqueued_on >= s[j].enqueued_on}

ScanAll(s) == [i \in DOMAIN s |-> ScanQueueItem(s[i])]

\* ------------------------------------------------ methods of db.Database
\* Each method yields the table after the call and the value it returns.
\* err is the outcome of Prepare/Exec/Query: TRUE when sqlite reports an error.

\* insert or ignore into queue(chat_id, message, fire_on) values(?, ?, ?)
Enqueue(q, s, chatID, message, fireOn, t, err) ==
    LET row == NewRow(NextID(q, s), chatID, message, fireOn, t) IN
    IF err THEN [queue |-> q, seq |-> s, result |-> FALSE]
    ELSE IF Conflicts(q, row) # {} THEN [queue |-> q, seq |-> s, result |-> TRUE]
    ELSE [queue |-> q \cup {row}, seq |-> row.id, result |-> TRUE]

\* Mutation of DeliverableQueueItems: the query without `and fire_on <= ?`.
DeliverableQueueItemsAnyFireOn(q, maxTries, t, err) ==
    LET m == IF maxTries <= 0 THEN defaultMaxNumTries ELSE maxTries
        rows == {r \in q : r.delivered_on = NULL /\ r.num_tries < m}
    IN  IF err THEN {<<>>} ELSE {ScanAll(s) : s \in OrderByEnqueuedOnDesc(rows)}

\* Mutation of DeliverableQueueItems: `num_tries <= ?` in place of `<`.
DeliverableQueueItemsLeq(q, maxTries, t, err) ==
    LET m == IF maxTries <= 0 THEN defaultMaxNumTries ELSE maxTries
        rows == {r \in q : r.delivered_on = NULL /\ r.num_tries <= m /\ r.fire_on <= t}
    IN  IF err THEN {<<>>} ELSE {ScanAll(s) : s \in OrderByEnqueuedOnDesc(rows)}

\* select ... where delivered_on is null and num_tries < ? and fire_on <= ?
\* order by enqueued_on desc: the set of sequences the query may return.
DeliverableQueueItems(q, maxTries, t, err) ==
    LET m == IF maxTries <= 0 THEN defaultMaxNumTries ELSE maxTries
        rows == {r \in q : r.delivered_on = NULL /\ r.num_tries < m /\ r.fire_on <= t}
    IN  IF err THEN {<<>>} ELSE {ScanAll(s) : s \in OrderByEnqueuedOnDesc(rows)}

\* Mutation of UndeliveredQueueItems: the query without `and delivered_on is null`.
UndeliveredQueueItemsAnyDelivery(q, chatID, err) ==
    LET rows == {r \in q : r.chat_id = chatID}
    IN  IF err THEN {<<>>} ELSE {ScanAll(s) : s \in OrderByEnqueuedOnDesc(rows)}

\* select ... where chat_id = ? and delivered_on is null order by enqueued_on desc
UndeliveredQueueItems(q, chatID, err) ==
    LET rows == {r \in q : r.chat_id = chatID /\ r.delivered_on = NULL}
    IN  IF err THEN {<<>>} ELSE {ScanAll(s) : s \in OrderByEnqueuedOnDesc(rows)}

\* Mutation of DeleteQueueItem: the delete without `and chat_id = ?`.
DeleteQueueItemByIDOnly(q, chatID, queueID, err) ==
    IF err THEN [queue |-> q, result |-> FALSE]
    ELSE [queue |-> {r \in q : ~(r.id = queueID)}, result |-> TRUE]

\* delete from queue where id = ? and chat_id = ?
\* result is true whenever Exec returned no error: RowsAffected is not read.
DeleteQueueItem(q, chatID, queueID, err) ==
    IF err THEN [queue |-> q, result |-> FALSE]
    ELSE [queue |-> {r \in q : ~(r.id = queueID /\ r.chat_id = chatID)},
          result |-> TRUE]

\* Mutation of IncreaseNumTries: the update without `id = ?`, which bumps
\* every row of the chat.
IncreaseNumTriesWholeChat(q, chatID, queueID, err) ==
    LET hit == {r \in q : r.chat_id = chatID}
        upd(r) == IF r \in hit THEN [r EXCEPT !.num_tries = @ + 1] ELSE r
    IN  IF err THEN [queue |-> q, result |-> FALSE]
        ELSE [queue |-> {upd(r) : r \in q}, result |-> Cardinality(hit) > 0]

\* update queue set num_tries = num_tries + 1 where id = ? and chat_id = ?
IncreaseNumTries(q, chatID, queueID, err) ==
    LET hit == {r \in q : r.id = queueID /\ r.chat_id = chatID}
        upd(r) == IF r \in hit THEN [r EXCEPT !.num_tries = @ + 1] ELSE r
    IN  IF err THEN [queue |-> q, result |-> FALSE]
        ELSE [queue |-> {upd(r) : r \in q}, result |-> Cardinality(hit) > 0]

\* Mutation of MarkQueueItemAsDelivered: RowsAffected is not read (as in
\* DeleteQueueItem), so the call reports success whenever Exec does.
MarkQueueItemAsDeliveredNoRowCheck(q, chatID, queueID, t, err) ==
    LET hit == {r \in q : r.id = queueID /\ r.chat_id = chatID}
        upd(r) == IF r \in hit THEN [r EXCEPT !.delivered_on = t] ELSE r
    IN  IF err THEN [queue |-> q, result |-> FALSE]
        ELSE [queue |-> {upd(r) : r \in q}, result |-> TRUE]

\* Mutation of MarkQueueItemAsDelivered: the update also resets num_tries.
MarkQueueItemAsDeliveredResetsTries(q, chatID, queueID, t, err) ==
    LET hit == {r \in q : r.id = queueID /\ r.chat_id = chatID}
        upd(r) == IF r \in hit THEN [r EXCEPT !.delivered_on = t, !.num_tries = 0] ELSE r
    IN  IF err THEN [queue |-> q, result |-> FALSE]
        ELSE [queue |-> {upd(r) : r \in q}, result |-> Cardinality(hit) > 0]

\* update queue set delivered_on = ? where id = ? and chat_id = ?
MarkQueueItemAsDelivered(q, chatID, queueID, t, err) ==
    LET hit == {r \in q : r.id = queueID /\ r.chat_id = chatID}
        upd(r) == IF r \in hit THEN [r EXCEPT !.delivered_on = t] ELSE r
    IN  IF err THEN [queue |-> q, result |-> FALSE]
        ELSE [queue |-> {upd(r) : r \in q}, result |-> Cardinality(hit) > 0]

\* ---------------------------------------------------------------- threads
\* Goroutines of the process: the delivery goroutines processQueue starts,
\* the goroutine of monitorQueue and the one that handles updates.
TaskThreads == 1..MaxTasks
MonitorThread == MaxTasks + 1
HandlerThread == MaxTasks + 2
Threads == 1..(MaxTasks + 2)

\* Where a thread is: pc "idle" (in no Database method), "wait" (called
\* method op, blocked in d.Lock/d.RLock), "in" (holds the lock, inside the
\* storage call of op), and for delivery goroutines "none" (not started),
\* "send" (in client.SendMessage) and "done".  cycle: for the monitor the
\* number of poll cycles begun, for a delivery goroutine the cycle it is of.
Idle == [pc |-> "idle", op |-> "", cycle |-> 0]
NotStarted == [pc |-> "none", op |-> "", cycle |-> 0]

\* Mutation of LockKind: DeleteQueueItem takes d.RLock() like the selects.
LockKindDeleteShared(op) ==
    IF op \in {"saveLog", "Enqueue", "IncreaseNumTries", "MarkQueueItemAsDelivered"}
    THEN "Lock" ELSE "RLock"

\* d.Lock() for the methods that write, d.RLock() for those that read.
LockKind(op) ==
    IF op \in {"saveLog", "Enqueue", "DeleteQueueItem", "IncreaseNumTries",
               "MarkQueueItemAsDelivered"}
    THEN "Lock" ELSE "RLock"

\* The Database methods called outside the delivery path: those the update
\* handler of main.go calls, and GetLogs, which the package exports and
\* main.go does not call.
HandlerOps == {"Enqueue", "UndeliveredQueueItems", "DeleteQueueItem", "saveLog", "GetLogs"}

\* ------------------------------------------------------------------ state
\* ret: the operation that ran last (every action records itself here, so
\* ret.op names the step that led to the current state).  What the call
\* returned is in result when it is a bool and in items when it is a
\* []QueueItem, so that every ret has the same shape.
ListOps == {"DeliverableQueueItems", "UndeliveredQueueItems"}
Ret(op, chatID, queueID, err, result) ==
    [op |-> op, chatID |-> chatID, queueID |-> queueID, err |-> err,
     result |-> IF op \in ListOps THEN TRUE ELSE result,
     items |-> IF op \in ListOps THEN result ELSE <<>>]

\* init() of main.go: a negative max_num_tries becomes 10, 0 is kept (and
\* DeliverableQueueItems then falls back to defaultMaxNumTries).
ConfMaxNumTries(c) == IF c < 0 THEN 10 ELSE c

Init ==
    /\ queue = {}
    /\ seq = 0
    /\ now = 0
    /\ maxNumTries \in {ConfMaxNumTries(c) : c \in 1..MaxConfTries}
    /\ tasks = <<>>
    /\ ret = Ret("init", 0, 0, FALSE, TRUE)
    /\ deleted = {}
    /\ numMarked = [i \in QueueIDs |-> 0]
    /\ numIncreased = [i \in QueueIDs |-> 0]
    /\ mu = [w |-> 0, r |-> {}]
    /\ thr = [t \in Threads |-> IF t \in TaskThreads THEN NotStarted ELSE Idle]

\* ---------------------------------------------------------------- actions
\* The clock advances by a second.
Tick ==
    /\ now < MaxTime
    /\ now' = now + 1
    /\ ret' = Ret("Tick", 0, 0, FALSE, TRUE)
    /\ UNCHANGED <<queue, seq, maxNumTries, tasks, deleted, numMarked, numIncreased, mu, thr>>

\* processQueryResponse: a confirmed reminder whose time is not in the past
\* is saved with db.Enqueue.
processQueryResponse(chatID, message, when, err) ==
    /\ when >= now
    /\ seq < MaxRows
    /\ LET e == Enqueue(queue, seq, chatID, message, when, now, err) IN
        /\ queue' = e.queue
        /\ seq' = e.seq
        /\ ret' = Ret("Enqueue", chatID, 0, err, e.result)
    /\ UNCHANGED <<now, maxNumTries, tasks, deleted, numMarked, numIncreased, mu, thr>>

\* processUpdate, commands /list and /cancel: db.UndeliveredQueueItems(chatID)
processUpdate(chatID, err) ==
    /\ \E reminders \in UndeliveredQueueItems(queue, chatID, err) :
          ret' = Ret("UndeliveredQueueItems", chatID, 0, err, reminders)
    /\ UNCHANGED <<queue, seq, now, maxNumTries, tasks, deleted, numMarked, numIncreased, mu, thr>>

\* processCallbackQuery, "/cancel <id>": db.DeleteQueueItem(chat, id)
processCallbackQuery(chatID, queueID, err) ==
    /\ LET d == DeleteQueueItem(queue, chatID, queueID, err) IN
        /\ queue' = d.queue
        /\ ret' = Ret("DeleteQueueItem", chatID, queueID, err, d.result)
        /\ deleted' = deleted \cup {[chat_id |-> r.chat_id, id |-> r.id] : r \in queue \ d.queue}
    /\ UNCHANGED <<seq, now, maxNumTries, tasks, numMarked, numIncreased, mu, thr>>

\* The goroutine processQueue starts for one item of the queue.
NewTask(item) == [q |-> item, pc |-> "send", sent |-> "none", err |-> FALSE, incCalls |-> 0]

\* monitorQueue/processQueue: one poll cycle, on a tick of the ticker.
processQueue(err) ==
    /\ \E items \in DeliverableQueueItems(queue, maxNumTries, now, err) :
        /\ Len(tasks) + Len(items) <= MaxTasks
        /\ tasks' = tasks \o [i \in DOMAIN items |-> NewTask(items[i])]
        /\ ret' = Ret("DeliverableQueueItems", 0, 0, err, items)
    /\ UNCHANGED <<queue, seq, now, maxNumTries, deleted, numMarked, numIncreased, mu, thr>>

\* Mutation of SendMessage: MarkQueueItemAsDelivered is called whatever
\* sent.Ok says.
SendMessageAlwaysMarks(i, ok) ==
    /\ tasks[i].pc = "send"
    /\ tasks' = [tasks EXCEPT ![i].sent = IF ok THEN "ok" ELSE "failed",
                              ![i].pc = "mark"]
    /\ ret' = Ret("SendMessage", tasks[i].q.ChatID, tasks[i].q.ID, FALSE, ok)
    /\ UNCHANGED <<queue, seq, now, maxNumTries, deleted, numMarked, numIncreased, mu, thr>>

\* Mutation of SendMessage: the goroutine returns after a failed send, so
\* IncreaseNumTries is called after a successful send only.
SendMessageFailEnds(i, ok) ==
    /\ tasks[i].pc = "send"
    /\ tasks' = [tasks EXCEPT ![i].sent = IF ok THEN "ok" ELSE "failed",
                              ![i].pc = IF ok THEN "mark" ELSE "done"]
    /\ ret' = Ret("SendMessage", tasks[i].q.ChatID, tasks[i].q.ID, FALSE, ok)
    /\ UNCHANGED <<queue, seq, now, maxNumTries, deleted, numMarked, numIncreased, mu, thr>>

\* goroutine, client.SendMessage(q.ChatID, message, options): sent.Ok or not
SendMessage(i, ok) ==
    /\ tasks[i].pc = "send"
    /\ tasks' = [tasks EXCEPT ![i].sent = IF ok THEN "ok" ELSE "failed",
                              ![i].pc = IF ok THEN "mark" ELSE "inc"]
    /\ ret' = Ret("SendMessage", tasks[i].q.ChatID, tasks[i].q.ID, FALSE, ok)
    /\ UNCHANGED <<queue, seq, now, maxNumTries, deleted, numMarked, numIncreased, mu, thr>>

\* Mutation of TaskMark: IncreaseNumTries moved into the failure branch, so
\* a goroutine whose send succeeded ends after MarkQueueItemAsDelivered.
TaskMarkThenEnd(i, err) ==
    /\ tasks[i].pc = "mark"
    /\ LET t == tasks[i]
           m == MarkQueueItemAsDelivered(queue, t.q.ChatID, t.q.ID, now, err) IN
        /\ queue' = m.queue
        /\ ret' = Ret("MarkQueueItemAsDelivered", t.q.ChatID, t.q.ID, err, m.result)
        /\ numMarked' = IF m.result THEN [numMarked EXCEPT ![t.q.ID] = @ + 1]
                        ELSE numMarked
        /\ tasks' = [tasks EXCEPT ![i].pc = "done", ![i].err = @ \/ err]
    /\ UNCHANGED <<seq, now, maxNumTries, deleted, numIncreased, mu, thr>>

\* goroutine, sent.Ok: db.MarkQueueItemAsDelivered(q.ChatID, q.ID)
TaskMark(i, err) ==
    /\ tasks[i].pc = "mark"
    /\ LET t == tasks[i]
           m == MarkQueueItemAsDelivered(queue, t.q.ChatID, t.q.ID, now, err) IN
        /\ queue' = m.queue
        /\ ret' = Ret("MarkQueueItemAsDelivered", t.q.ChatID, t.q.ID, err, m.result)
        /\ numMarked' = IF m.result THEN [numMarked EXCEPT ![t.q.ID] = @ + 1]
                        ELSE numMarked
        /\ tasks' = [tasks EXCEPT ![i].pc = "inc", ![i].err = @ \/ err]
    /\ UNCHANGED <<seq, now, maxNumTries, deleted, numIncreased, mu, thr>>

\* goroutine, in every case: db.IncreaseNumTries(q.ChatID, q.ID)
TaskInc(i, err) ==
    /\ tasks[i].pc = "inc"
    /\ LET t == tasks[i]
           n == IncreaseNumTries(queue, t.q.ChatID, t.q.ID, err)
           matched == ~err /\ \E r \in queue : r.id = t.q.ID /\ r.chat_id = t.q.ChatID IN
        /\ queue' = n.queue
        /\ ret' = Ret("IncreaseNumTries", t.q.ChatID, t.q.ID, err, n.result)
        /\ numIncreased' = IF matched THEN [numIncreased EXCEPT ![t.q.ID] = @ + 1]
                           ELSE numIncreased
        /\ tasks' = [tasks EXCEPT ![i].pc = "done", ![i].err = @ \/ err,
                                  ![i].incCalls = @ + 1]
    /\ UNCHANGED <<seq, now, maxNumTries, deleted, numMarked, mu, thr>>

Next ==
    \/ Tick
    \/ \E c \in Chats, m \in Messages, w \in Times, err \in BOOLEAN :
          processQueryResponse(c, m, w, err)
    \/ \E c \in Chats, err \in BOOLEAN : processUpdate(c, err)
    \/ \E c \in Chats, id \in QueueIDs, err \in BOOLEAN : processCallbackQuery(c, id, err)
    \/ \E err \in BOOLEAN : processQueue(err)
    \/ \E i \in DOMAIN tasks, ok \in BOOLEAN : SendMessage(i, ok)
    \/ \E i \in DOMAIN tasks, err \in BOOLEAN : TaskMark(i, err)
    \/ \E i \in DOMAIN tasks, err \in BOOLEAN : TaskInc(i, err)

Spec == Init /\ [][Next]_vars

\* ------------------------------------------------- the lock, step by step
\* The same threads at the grain of the RWMutex: a Database method is
\* d.Lock()/d.RLock(), the storage call, d.Unlock()/d.RUnlock().  The table
\* is left out here; only who is inside which storage call is followed.

\* sync.RWMutex: Lock waits for the writer and all readers to leave, RLock
\* for the writer.
CanAcquire(m, kind) ==
    IF kind = "Lock" THEN m.w = 0 /\ m.r = {} ELSE m.w = 0

\* d.Lock() / d.RLock() returning in thread t
Acquire(t) ==
    /\ thr[t].pc = "wait"
    /\ CanAcquire(mu, LockKind(thr[t].op))
    /\ mu' = IF LockKind(thr[t].op) = "Lock" THEN [mu EXCEPT !.w = t]
             ELSE [mu EXCEPT !.r = @ \cup {t}]
    /\ thr' = [thr EXCEPT ![t].pc = "in"]
    /\ UNCHANGED dataVars

\* d.Unlock() / d.RUnlock() by thread t
Release(m, t) == [w |-> IF m.w = t THEN 0 ELSE m.w, r |-> m.r \ {t}]

\* processUpdate / processCallbackQuery / processQueryResponse call a method
HandlerCall(op) ==
    /\ thr[HandlerThread].pc = "idle"
    /\ thr' = [thr EXCEPT ![HandlerThread] = [pc |-> "wait", op |-> op, cycle |-> 0]]
    /\ UNCHANGED <<mu, dataVars>>

\* the method unlocks and returns to the handler
HandlerReturn ==
    /\ thr[HandlerThread].pc = "in"
    /\ mu' = Release(mu, HandlerThread)
    /\ thr' = [thr EXCEPT ![HandlerThread] = Idle]
    /\ UNCHANGED dataVars

\* monitorQueue: the ticker fires, processQueue calls DeliverableQueueItems
MonitorTick ==
    /\ thr[MonitorThread].pc = "idle"
    /\ thr[MonitorThread].cycle < MaxCycles
    /\ thr' = [thr EXCEPT ![MonitorThread] =
                  [pc |-> "wait", op |-> "DeliverableQueueItems", cycle |-> @.cycle + 1]]
    /\ UNCHANGED <<mu, dataVars>>

\* Mutation of MonitorDispatch: the loop body is called without `go`, so
\* processQueue does not return while its sends are under way.
MonitorDispatchNoGo(started) ==
    /\ thr[MonitorThread].pc = "in"
    /\ \A t \in started : thr[t].pc = "none"
    /\ mu' = Release(mu, MonitorThread)
    /\ thr' = [t \in Threads |->
                  IF t = MonitorThread
                  THEN [thr[t] EXCEPT !.pc = IF started = {} THEN "idle" ELSE "join",
                                      !.op = ""]
                  ELSE IF t \in started
                       THEN [pc |-> "send", op |-> "", cycle |-> thr[MonitorThread].cycle]
                       ELSE thr[t]]
    /\ UNCHANGED dataVars

\* processQueue: DeliverableQueueItems unlocks and returns; `go func` is
\* run for each item (any number of them), and processQueue returns.
MonitorDispatch(started) ==
    /\ thr[MonitorThread].pc = "in"
    /\ \A t \in started : thr[t].pc = "none"
    /\ mu' = Release(mu, MonitorThread)
    /\ thr' = [t \in Threads |->
                  IF t = MonitorThread THEN [thr[t] EXCEPT !.pc = "idle", !.op = ""]
                  ELSE IF t \in started
                       THEN [pc |-> "send", op |-> "", cycle |-> thr[MonitorThread].cycle]
                       ELSE thr[t]]
    /\ UNCHANGED dataVars

\* goroutine: client.SendMessage returns; on sent.Ok the goroutine calls
\* MarkQueueItemAsDelivered, otherwise IncreaseNumTries.
GoSend(t, ok) ==
    /\ thr[t].pc = "send"
    /\ thr' = [thr EXCEPT ![t].pc = "wait",
                          ![t].op = IF ok THEN "MarkQueueItemAsDelivered"
                                    ELSE "IncreaseNumTries"]
    /\ UNCHANGED <<mu, dataVars>>

\* goroutine: the method unlocks and returns; IncreaseNumTries follows
\* MarkQueueItemAsDelivered, and the goroutine ends after IncreaseNumTries.
GoReturn(t) ==
    /\ t \in TaskThreads
    /\ thr[t].pc = "in"
    /\ mu' = Release(mu, t)
    /\ thr' = IF thr[t].op = "MarkQueueItemAsDelivered"
              THEN [thr EXCEPT ![t].pc = "wait", ![t].op = "IncreaseNumTries"]
              ELSE [thr EXCEPT ![t].pc = "done", ![t].op = ""]
    /\ UNCHANGED dataVars

NextLock ==
    \/ \E t \in Threads : Acquire(t)
    \/ \E op \in HandlerOps : HandlerCall(op)
    \/ HandlerReturn
    \/ MonitorTick
    \/ \E started \in SUBSET TaskThreads : MonitorDispatch(started)
    \/ \E t \in TaskThreads, ok \in BOOLEAN : GoSend(t, ok)
    \/ \E t \in TaskThreads : GoReturn(t)

SpecLock == Init /\ [][NextLock]_vars

\* ------------------------------------------- the scheduler left to run on
\* The same program when the ticker keeps firing, every goroutine runs to
\* its end, the storage answers every call (err is FALSE throughout) and no
\* reminder is cancelled (processCallbackQuery is not called).
\* A goroutine that has returned is gone, so tasks holds the goroutines in
\* flight and MaxTasks bounds how many there are at a time.

\* goroutine: the closing brace of `go func(q)`, after IncreaseNumTries
GoExit(i) ==
    /\ i \in DOMAIN tasks
    /\ tasks[i].pc = "done"
    /\ tasks' = [j \in 1..(Len(tasks) - 1) |-> IF j < i THEN tasks[j] ELSE tasks[j + 1]]
    /\ ret' = Ret("GoExit", tasks[i].q.ChatID, tasks[i].q.ID, FALSE, TRUE)
    /\ UNCHANGED <<queue, seq, now, maxNumTries, deleted, numMarked, numIncreased, mu, thr>>

\* the steps of the goroutine in slot i, whatever client.SendMessage reports
GoStep(i) ==
    /\ i \in DOMAIN tasks
    /\ \/ \E ok \in BOOLEAN : SendMessage(i, ok)
       \/ TaskMark(i, FALSE)
       \/ TaskInc(i, FALSE)
       \/ GoExit(i)

NextLive ==
    \/ Tick
    \/ \E c \in LiveChats, m \in Messages, w \in Times : processQueryResponse(c, m, w, FALSE)
    \/ \E c \in LiveChats : processUpdate(c, FALSE)
    \/ processQueue(FALSE)
    \/ \E i \in 1..MaxTasks : GoStep(i)

\* Time passes; monitor.C keeps delivering ticks, so processQueue is called
\* again; the Go scheduler runs every started goroutine and SendMessage
\* returns.  What the users of the bot do is under no obligation.
\* Fairness is asked of the steps that change the table, the clock or the
\* goroutines: a poll that finds nothing to send starts nothing.
progVars == <<queue, seq, now, maxNumTries, tasks>>
Fairness ==
    /\ WF_progVars(Tick)
    /\ WF_progVars(processQueue(FALSE))
    /\ \A i \in 1..MaxTasks : WF_progVars(GoStep(i))

SpecLive == Init /\ [][NextLive]_vars /\ Fairness

\* ------------------------------------------------------------ properties
ItemIDs(items) == {items[i].ID : i \in DOMAIN items}
TasksOf(id) == {i \in DOMAIN tasks : tasks[i].q.ID = id}
Matching(q, chatID, queueID) == {r \in q : r.id = queueID /\ r.chat_id = chatID}

\* C1: a ListDeliverable (DeliverableQueueItems) call that the storage
\* answers, made with a ceiling > 0 at time now, returns exactly the rows with
\* delivered_on unset, num_tries below the ceiling and fire_on <= now, each
\* once and with its own fields, in non-increasing enqueued_on order; a row
\* with fire_on > now is never in the result.
C1_ListDeliverableExact ==
    (ret.op = "DeliverableQueueItems" /\ ~ret.err /\ maxNumTries > 0) =>
        LET items == ret.items
            due == {r \in queue : /\ r.delivered_on = NULL
                                  /\ r.num_tries < maxNumTries
                                  /\ r.fire_on <= now}
        IN  /\ Len(items) = Cardinality(due)
            /\ ItemIDs(items) = {r.id : r \in due}
            /\ \A i \in DOMAIN items : \E r \in due :
                  /\ items[i].ID = r.id
                  /\ items[i].ChatID = r.chat_id
                  /\ items[i].Message = r.message
                  /\ items[i].EnqueuedOn = r.enqueued_on
                  /\ items[i].FireOn = r.fire_on
            /\ \A i, j \in DOMAIN items :
                  i < j => items[i].EnqueuedOn >= items[j].EnqueuedOn
            /\ \A r \in queue : r.fire_on > now => r.id \notin ItemIDs(items)

\* C1 witness: a cycle listed two due rows enqueued at different times.
C1_Witness ==
    /\ ret.op = "DeliverableQueueItems"
    /\ ~ret.err
    /\ Len(ret.items) = 2
    /\ ret.items[1].EnqueuedOn > ret.items[2].EnqueuedOn

\* C2: once a row's delivered_on is set, no step clears it or replaces it
\* with another timestamp, for as long as the row exists.
C2_DeliveredAtKept ==
    [][\A r \in queue : r.delivered_on # NULL =>
          \A r2 \in queue' : r2.id = r.id => r2.delivered_on = r.delivered_on]_vars

\* C3: MarkDelivered(destination, id) returns true only when a row that is
\* still pending matches destination and id; when no pending row matches
\* (already delivered, other destination, no such id) it returns false and
\* leaves the table as it was.
C3_MarkDeliveredOnlyPending ==
    [][ret'.op = "MarkQueueItemAsDelivered" =>
          LET pending == {r \in Matching(queue, ret'.chatID, ret'.queueID) :
                              r.delivered_on = NULL}
          IN  /\ ret'.result = TRUE => pending # {}
              /\ pending = {} => (ret'.result = FALSE /\ queue' = queue)]_vars

\* C4: the table never holds two rows with the same (chat_id, message,
\* fire_on): a repeated Enqueue of the same tuple is ignored.
C4_EnqueueDedup ==
    \A r1, r2 \in queue :
        (r1.chat_id = r2.chat_id /\ r1.message = r2.message /\ r1.fire_on = r2.fire_on)
            => r1 = r2

\* C5: for every record, MarkDelivered returns true at most once.
C5_MarkedAtMostOnce ==
    \A id \in QueueIDs : numMarked[id] <= 1

\* C6: Delete(destination, id) returns true only when it removed a row that
\* matches destination and id; when no row matches it returns false and the
\* table is as it was.
C6_DeleteReportsMatch ==
    [][ret'.op = "DeleteQueueItem" =>
          LET hit == Matching(queue, ret'.chatID, ret'.queueID)
          IN  /\ ret'.result = TRUE => (hit # {} /\ queue' = queue \ hit)
              /\ hit = {} => (ret'.result = FALSE /\ queue' = queue)]_vars

\* C7: an id that a Delete removed is in no row of the table and in no
\* result of ListPending (UndeliveredQueueItems) or ListDeliverable
\* (DeliverableQueueItems) from then on.
C7_DeletedNeverListed ==
    LET gone == {d.id : d \in deleted}
    IN  /\ \A r \in queue : r.id \notin gone
        /\ ret.op \in {"UndeliveredQueueItems", "DeliverableQueueItems"}
              => ItemIDs(ret.items) \cap gone = {}

\* C7 witness: ListPending for the chat of a deleted row returns a row
\* enqueued since, after a delivery goroutine of the deleted row has run its
\* store calls to the end without matching it.
C7_Witness ==
    \E d \in deleted :
        /\ ret.op = "UndeliveredQueueItems"
        /\ ret.chatID = d.chat_id
        /\ ~ret.err
        /\ \E k \in DOMAIN ret.items : ret.items[k].ID > d.id
        /\ \E i \in TasksOf(d.id) :
              tasks[i].pc = "done" /\ ~tasks[i].err /\ numIncreased[d.id] = 0

\* C8: a row is created with num_tries 0, num_tries never decreases, and it
\* equals the number of IncrementTries (IncreaseNumTries) calls that matched
\* the row; a call that matches no row returns false and changes no row.
C8_NumTriesCountsIncrements ==
    [][/\ \A r2 \in queue' : r2.num_tries = numIncreased'[r2.id]
       /\ \A r2 \in queue' : (\A r \in queue : r.id # r2.id) => r2.num_tries = 0
       /\ \A r \in queue : \A r2 \in queue' :
             r2.id = r.id => r2.num_tries >= r.num_tries
       /\ (ret'.op = "IncreaseNumTries"
             /\ Matching(queue, ret'.chatID, ret'.queueID) = {})
                => (ret'.result = FALSE /\ queue' = queue)]_vars

\* C8 witness: two matching calls have brought a row to num_tries 2, and
\* another row of the same chat is still at 0.
C8_Witness ==
    \E r, o \in queue :
        /\ r.num_tries = 2 /\ numIncreased[r.id] = 2
        /\ o.id # r.id /\ o.chat_id = r.chat_id /\ o.num_tries = 0

\* C9: a row whose num_tries has reached the ceiling stays at or above it,
\* is in no ListDeliverable result from then on although delivered_on may
\* still be unset, and once no goroutine of an earlier cycle is left waiting
\* to send it the scheduler starts no further send for it.
C9_ExhaustedNeverDeliverable ==
    [][\A r \in queue : r.num_tries >= maxNumTries =>
          /\ \A r2 \in queue' : r2.id = r.id => r2.num_tries >= maxNumTries
          /\ ret'.op = "DeliverableQueueItems" => r.id \notin ItemIDs(ret'.items)
          /\ (\A i \in DOMAIN tasks : tasks[i].q.ID = r.id => tasks[i].pc # "send")
                => (\A i \in DOMAIN tasks' :
                        tasks'[i].q.ID = r.id => tasks'[i].pc # "send")]_vars

\* C9 witness: after `ceiling` failed sends a due, undelivered row is left
\* out by the next cycle's ListDeliverable.
C9_Witness ==
    \E r \in queue :
        /\ r.num_tries >= maxNumTries
        /\ r.delivered_on = NULL
        /\ r.fire_on <= now
        /\ \A i \in TasksOf(r.id) : tasks[i].pc = "done" /\ tasks[i].sent = "failed"
        /\ Cardinality(TasksOf(r.id)) = maxNumTries
        /\ ret.op = "DeliverableQueueItems"
        /\ ~ret.err
        /\ r.id \notin ItemIDs(ret.items)

\* C10: a delivery goroutine has called IncreaseNumTries exactly once when
\* it ends and not at all before its send returned, whether the send
\* succeeded or failed; a row whose only goroutine sent successfully and met
\* no storage error has delivered_on set and num_tries = 1; and no
\* ListDeliverable result holds a delivered row.
C10_IncrementOncePerTask ==
    /\ \A i \in DOMAIN tasks :
          /\ tasks[i].pc = "done" => (tasks[i].incCalls = 1 /\ tasks[i].sent # "none")
          /\ tasks[i].pc # "done" => tasks[i].incCalls = 0
          /\ tasks[i].pc = "send" <=> tasks[i].sent = "none"
    /\ \A r \in queue : \A i \in DOMAIN tasks :
          (/\ TasksOf(r.id) = {i}
           /\ tasks[i].pc = "done"
           /\ tasks[i].sent = "ok"
           /\ ~tasks[i].err)
              => (r.delivered_on # NULL /\ r.num_tries = 1)
    /\ (ret.op = "DeliverableQueueItems")
          => \A r \in queue : r.delivered_on # NULL => r.id \notin ItemIDs(ret.items)

\* C10 witness: a later cycle ran after a fresh row's one successful
\* delivery; the row is delivered with num_tries 1 and is not listed.
C10_Witness ==
    \E r \in queue : \E i \in DOMAIN tasks :
        /\ TasksOf(r.id) = {i}
        /\ tasks[i].pc = "done" /\ tasks[i].sent = "ok" /\ ~tasks[i].err
        /\ r.delivered_on # NULL /\ r.num_tries = 1
        /\ r.fire_on <= now
        /\ ret.op = "DeliverableQueueItems" /\ ~ret.err
        /\ r.id \notin ItemIDs(ret.items)

\* C11: a goroutine whose send failed goes straight to IncreaseNumTries and
\* never calls MarkQueueItemAsDelivered, so none of its steps changes a
\* delivered_on; a row with no successful send has delivered_on unset; and a
\* ListDeliverable that the storage answers returns again every due row with
\* a failed send whose num_tries is still below the ceiling.
C11_FailedSendStaysPending ==
    [][/\ \A i \in DOMAIN tasks :
             /\ (tasks[i].pc = "send" /\ tasks'[i].sent = "failed")
                   => (tasks'[i].pc = "inc" /\ queue' = queue)
             /\ (tasks[i].sent = "failed" /\ tasks'[i] # tasks[i])
                   => /\ ret'.op = "IncreaseNumTries"
                      /\ \A r \in queue : \A r2 \in queue' :
                            r2.id = r.id => r2.delivered_on = r.delivered_on
       /\ \A r \in queue' :
             (\A i \in DOMAIN tasks' : tasks'[i].q.ID = r.id => tasks'[i].sent # "ok")
                => r.delivered_on = NULL
       /\ (ret'.op = "DeliverableQueueItems" /\ ~ret'.err) =>
             \A r \in queue' :
                (/\ r.delivered_on = NULL
                 /\ r.num_tries < maxNumTries
                 /\ r.fire_on <= now'
                 /\ \E i \in DOMAIN tasks : tasks[i].q.ID = r.id /\ tasks[i].sent = "failed")
                    => r.id \in ItemIDs(ret'.items)]_vars

\* C11 witness: a row whose first send failed is listed again by the next
\* cycle, undelivered and with num_tries 1 below the ceiling.
C11_Witness ==
    \E r \in queue : \E i \in DOMAIN tasks :
        /\ tasks[i].q.ID = r.id /\ tasks[i].pc = "done" /\ tasks[i].sent = "failed"
        /\ r.delivered_on = NULL
        /\ r.num_tries = 1 /\ r.num_tries < maxNumTries
        /\ ret.op = "DeliverableQueueItems" /\ ~ret.err
        /\ r.id \in ItemIDs(ret.items)

\* C12: a goroutine whose row has been deleted still runs to its end: each
\* of its remaining steps can be taken, and its MarkQueueItemAsDelivered and
\* IncreaseNumTries calls, matching no row, return false and leave the table
\* as it is (no row recreated, no other row changed).
C12_DeletedRowCallsMiss ==
    /\ [](\A i \in DOMAIN tasks :
             /\ tasks[i].pc = "send" => ENABLED SendMessage(i, TRUE)
             /\ tasks[i].pc = "mark" => ENABLED TaskMark(i, FALSE)
             /\ tasks[i].pc = "inc" => ENABLED TaskInc(i, FALSE))
    /\ [][(/\ ret'.op \in {"MarkQueueItemAsDelivered", "IncreaseNumTries"}
           /\ Matching(queue, ret'.chatID, ret'.queueID) = {})
              => (ret'.result = FALSE /\ queue' = queue)]_vars

\* C12 witness: a row was deleted while its goroutine was in flight; the
\* goroutine sent, called both store methods without a storage error and
\* ended, no call matched, and another row is still in the table.
C12_Witness ==
    \E d \in deleted : \E i \in TasksOf(d.id) :
        /\ tasks[i].pc = "done" /\ tasks[i].sent = "ok" /\ ~tasks[i].err
        /\ numMarked[d.id] = 0 /\ numIncreased[d.id] = 0
        /\ ret.op = "IncreaseNumTries" /\ ret.queueID = d.id /\ ret.result = FALSE
        /\ \E r \in queue : r.num_tries = 0 /\ r.delivered_on = NULL

\* C13: a ListPending (UndeliveredQueueItems) call that the storage answers
\* returns exactly the rows of that chat with delivered_on unset, each once
\* with its own fields, in non-increasing enqueued_on order, whatever their
\* num_tries and fire_on.
C13_ListPendingExact ==
    (ret.op = "UndeliveredQueueItems" /\ ~ret.err) =>
        LET items == ret.items
            pending == {r \in queue : r.chat_id = ret.chatID /\ r.delivered_on = NULL}
        IN  /\ Len(items) = Cardinality(pending)
            /\ ItemIDs(items) = {r.id : r \in pending}
            /\ \A i \in DOMAIN items : \E r \in pending :
                  /\ items[i].ID = r.id
                  /\ items[i].ChatID = r.chat_id
                  /\ items[i].Message = r.message
                  /\ items[i].EnqueuedOn = r.enqueued_on
                  /\ items[i].FireOn = r.fire_on
            /\ \A i, j \in DOMAIN items :
                  i < j => items[i].EnqueuedOn >= items[j].EnqueuedOn

\* C13 witness: the list holds a row that is retry-exhausted, undelivered
\* and leaves out a delivered row of the same chat.
C13_Witness ==
    /\ ret.op = "UndeliveredQueueItems" /\ ~ret.err
    /\ \E r, o \in queue :
          /\ r.chat_id = ret.chatID /\ r.delivered_on = NULL
          /\ r.num_tries >= maxNumTries
          /\ r.id \in ItemIDs(ret.items)
          /\ o.chat_id = ret.chatID /\ o.delivered_on # NULL
          /\ o.id \notin ItemIDs(ret.items)

\* C14: a MarkDelivered, IncrementTries or Delete call made for chat d
\* leaves every row of another chat exactly as it was, also when the id of
\* the call is that row's id.
C14_OtherChatUntouched ==
    [][ret'.op \in {"MarkQueueItemAsDelivered", "IncreaseNumTries", "DeleteQueueItem"}
          => \A r \in queue : r.chat_id # ret'.chatID => r \in queue']_vars

\* C14 witness: Delete was called, without a storage error, with the id of
\* a row of another chat, and the row is still there.
C14_Witness ==
    /\ ret.op = "DeleteQueueItem" /\ ~ret.err
    /\ \E r \in queue : r.id = ret.queueID /\ r.chat_id # ret.chatID

\* C15: Enqueue returns false exactly when the storage reports an error;
\* a successful Enqueue adds one row, with num_tries 0, delivered_on unset,
\* enqueued_on = now and an id that no row of the table and no deleted row
\* ever had.
C15_EnqueueFreshRow ==
    [][ret'.op = "Enqueue" =>
          /\ ret'.result = FALSE <=> ret'.err
          /\ ret'.result = TRUE =>
                \E r \in queue' :
                    /\ queue' = queue \cup {r}
                    /\ r \notin queue
                    /\ r.num_tries = 0
                    /\ r.delivered_on = NULL
                    /\ r.enqueued_on = now
                    /\ r.id \notin {o.id : o \in queue} \cup {d.id : d \in deleted}
                    /\ r.id > seq]_vars

\* C15 witness: an Enqueue succeeded after an earlier row was deleted.
C15_Witness ==
    /\ ret.op = "Enqueue" /\ ret.result = TRUE
    /\ deleted # {}
    /\ \E r \in queue : r.id = seq /\ \A d \in deleted : d.id < r.id

\* C18: id, chat_id, message, enqueued_on and fire_on of a row never change;
\* a MarkDelivered step changes nothing but delivered_on of the rows it
\* matches, an IncrementTries step nothing but their num_tries, and both
\* leave every other row as it was.
C18_Frame ==
    [][/\ \A r \in queue : \A r2 \in queue' : r2.id = r.id =>
             /\ r2.chat_id = r.chat_id
             /\ r2.message = r.message
             /\ r2.enqueued_on = r.enqueued_on
             /\ r2.fire_on = r.fire_on
       /\ ret'.op = "MarkQueueItemAsDelivered" =>
             /\ {r.id : r \in queue'} = {r.id : r \in queue}
             /\ \A r \in queue : \A r2 \in queue' : r2.id = r.id =>
                   /\ r2.num_tries = r.num_tries
                   /\ (r.id # ret'.queueID \/ r.chat_id # ret'.chatID) => r2 = r
       /\ ret'.op = "IncreaseNumTries" =>
             /\ {r.id : r \in queue'} = {r.id : r \in queue}
             /\ \A r \in queue : \A r2 \in queue' : r2.id = r.id =>
                   /\ r2.delivered_on = r.delivered_on
                   /\ (r.id # ret'.queueID \/ r.chat_id # ret'.chatID) => r2 = r]_vars

\* C18 witness: a row has been marked delivered and had its num_tries
\* increased while another row of the table stayed as it was created.
C18_Witness ==
    \E r, o \in queue :
        /\ r.delivered_on # NULL /\ r.num_tries = 1
        /\ o.id # r.id /\ o.delivered_on = NULL /\ o.num_tries = 0
        /\ ret.op = "IncreaseNumTries" /\ ret.queueID = r.id /\ ret.result = TRUE

\* C19: for every reminder, at most one send succeeds.
C19_SentAtMostOnce ==
    \A id \in QueueIDs :
        Cardinality({i \in TasksOf(id) : tasks[i].sent = "ok"}) <= 1

\* C20: every row has num_tries <= the ceiling.
C20_TriesWithinCeiling ==
    \A r \in queue : r.num_tries <= maxNumTries

\* Reads and writes of the store, as spec section 4.1 sorts them.
Mutating == {"Enqueue", "DeleteQueueItem", "MarkQueueItemAsDelivered",
             "IncreaseNumTries", "saveLog"}
Reading == {"DeliverableQueueItems", "UndeliveredQueueItems", "GetLogs"}
InStorageCall(t) == thr[t].pc = "in"
HoldsLock(t) == mu.w = t \/ t \in mu.r

\* C16: two threads are inside their storage calls at the same time only
\* when both calls are reads (so no two mutating operations, and no mutating
\* operation with a read); the lock is held exactly by the threads inside a
\* storage call; and a delivery goroutine in the Notifier send holds no lock.
C16_ReadersWriterExclusion ==
    /\ \A t, u \in Threads :
          (t # u /\ InStorageCall(t) /\ InStorageCall(u))
              => (thr[t].op \in Reading /\ thr[u].op \in Reading)
    /\ \A t \in Threads : InStorageCall(t) =>
          (thr[t].op \in Mutating \cup Reading /\ (thr[t].op \in Mutating => mu.w = t))
    /\ \A t \in Threads : HoldsLock(t) <=> InStorageCall(t)
    /\ \A t \in TaskThreads : thr[t].pc = "send" => ~HoldsLock(t)

\* C16 witness: the monitor and the handler are inside two reads at once
\* while a delivery goroutine is in its send.
C16_Witness ==
    /\ InStorageCall(MonitorThread) /\ InStorageCall(HandlerThread)
    /\ thr[HandlerThread].op = "UndeliveredQueueItems"
    /\ \E t \in TaskThreads : thr[t].pc = "send"

\* C17: while a delivery goroutine is in (and may never leave) its send: it
\* holds no lock; every other goroutine in its send can go on; a thread
\* waiting for the lock is kept waiting only by a thread that is inside a
\* storage call, and every thread inside a storage call can leave it; and
\* the monitor, unless it is in its own DeliverableQueueItems call, can
\* begin the next poll cycle.  A failed send leads to IncreaseNumTries like
\* any other.
C17_TasksIndependent ==
    \A t \in TaskThreads : thr[t].pc = "send" =>
        /\ ~HoldsLock(t)
        /\ \A u \in TaskThreads : thr[u].pc = "send" =>
              (ENABLED GoSend(u, TRUE) /\ ENABLED GoSend(u, FALSE))
        /\ \A u \in Threads \ {t} :
              (thr[u].pc = "wait" /\ ~ENABLED Acquire(u))
                  => \E v \in Threads \ {t, u} : InStorageCall(v)
        /\ \A u \in TaskThreads : InStorageCall(u) => ENABLED GoReturn(u)
        /\ InStorageCall(HandlerThread) => ENABLED HandlerReturn
        /\ InStorageCall(MonitorThread) => ENABLED MonitorDispatch({})
        /\ (thr[MonitorThread].cycle < MaxCycles
              /\ thr[MonitorThread].pc \notin {"wait", "in"})
                  => ENABLED MonitorTick

\* C17 witness: of two goroutines of the first cycle one is still in its
\* send and the other, whose send failed, has ended; the monitor has begun
\* the second cycle and the handler is inside an Enqueue.
C17_Witness ==
    \E t, u \in TaskThreads :
        /\ thr[t].pc = "send" /\ thr[t].cycle = 1
        /\ thr[u].pc = "done" /\ thr[u].cycle = 1
        /\ thr[MonitorThread].cycle = 2
        /\ InStorageCall(HandlerThread) /\ thr[HandlerThread].op = "Enqueue"

\* A row that is out of the deliverable set for good: delivered, or with
\* num_tries at or above the ceiling.
Settled(r) == r.delivered_on # NULL \/ r.num_tries >= maxNumTries
Due(r) == r.delivered_on = NULL /\ r.num_tries < maxNumTries /\ r.fire_on <= now

\* C21: when time passes, the ticker keeps firing, every started goroutine
\* runs to its end and no store call fails, every row of the table is
\* eventually deleted or, from some point on, delivered or retry-exhausted
\* (and so no longer deliverable); a poll cycle starts one goroutine, at its
\* send, for each row that DeliverableQueueItems returned, and after a row
\* is returned a send for it is attempted.
C21_EventuallySettled ==
    /\ \A id \in QueueIDs :
          (\E r \in queue : r.id = id)
              ~> [](\A r \in queue : r.id = id => (Settled(r) /\ ~Due(r)))
    /\ \A id \in QueueIDs :
          (ret.op = "DeliverableQueueItems" /\ id \in ItemIDs(ret.items))
              ~> (ret.op = "SendMessage" /\ ret.queueID = id)
    /\ [][ret'.op = "DeliverableQueueItems" =>
             /\ Len(tasks') = Len(tasks) + Len(ret'.items)
             /\ \A k \in DOMAIN ret'.items :
                   /\ tasks'[Len(tasks) + k].q = ret'.items[k]
                   /\ tasks'[Len(tasks) + k].pc = "send"
                   /\ tasks'[Len(tasks) + k].sent = "none"]_vars

\* C21 witness: with ceiling 2, a row enqueued for a later second became due,
\* was sent twice in vain by goroutines that have both returned, and is now
\* retry-exhausted and undelivered.
C21_Witness ==
    /\ maxNumTries = 2
    /\ tasks = <<>>
    /\ ret.op = "GoExit"
    /\ \E r \in queue :
          /\ r.id = ret.queueID
          /\ r.fire_on > r.enqueued_on
          /\ r.delivered_on = NULL
          /\ r.num_tries = 2
          /\ numMarked[r.id] = 0
          /\ numIncreased[r.id] = 2

====
